---- MODULE Spec2Model ----
(***************************************************************************)
(* A model of src/kmip_bio.c: the five exchange operations of libkmip's    *)
(* BIO layer (kmip_bio_create, kmip_bio_destroy,                          *)
(* kmip_bio_get_symmetric_key, kmip_bio_create_with_context,               *)
(* kmip_bio_send_request_encoding).  One call is a walk through the        *)
(* function's statements; the allocator, the transport (BIO) and the codec *)
(* are the environment and choose their results nondeterministically.      *)
(*                                                                         *)
(* Representation of C values:                                             *)
(*  - a pointer is the index of a block in `heap` (NULL is 0);             *)
(*  - an int is an integer; the 4-byte length field keeps its 32-bit       *)
(*    two's-complement width (decode_int32_be);                            *)
(*  - a size_t is written as its value read as a 64-bit two's-complement   *)
(*    number, so (size_t)(-1) is -1 and "huge" (>= 2^63) means negative;   *)
(*    8 + L in size_t arithmetic is then 8 + L.                            *)
(***************************************************************************)
EXTENDS Integers, Sequences, FiniteSets

(* ------------------------------ bounds -------------------------------- *)
\* cap on buffer_blocks in the encode-retry loop (the code has none)
MaxBlocks == 3
\* largest unique identifier / key material the modelled server sends
MaxIdSize == 2
\* largest batch count the modelled server sends
MaxBatch == 2

(* -------------------------- program constants ------------------------- *)
SendBlockSize == 1024
HeaderSize == 8

NULL == 0
UNSET == -1

KMIP_OK == "KMIP_OK"
KMIP_NOT_IMPLEMENTED == "KMIP_NOT_IMPLEMENTED"
KMIP_ERROR_BUFFER_FULL == "KMIP_ERROR_BUFFER_FULL"
KMIP_TAG_MISMATCH == "KMIP_TAG_MISMATCH"
KMIP_TYPE_MISMATCH == "KMIP_TYPE_MISMATCH"
KMIP_MEMORY_ALLOC_FAILED == "KMIP_MEMORY_ALLOC_FAILED"
KMIP_IO_FAILURE == "KMIP_IO_FAILURE"
KMIP_EXCEED_MAX_MESSAGE_SIZE == "KMIP_EXCEED_MAX_MESSAGE_SIZE"
KMIP_MALFORMED_RESPONSE == "KMIP_MALFORMED_RESPONSE"
KMIP_OBJECT_MISMATCH == "KMIP_OBJECT_MISMATCH"

KMIP_STATUS_SUCCESS == "KMIP_STATUS_SUCCESS"
KMIP_STATUS_OPERATION_FAILED == "KMIP_STATUS_OPERATION_FAILED"

KMIP_OBJTYPE_SYMMETRIC_KEY == "KMIP_OBJTYPE_SYMMETRIC_KEY"
KMIP_OBJTYPE_PUBLIC_KEY == "KMIP_OBJTYPE_PUBLIC_KEY"
KMIP_KEYFORMAT_RAW == "KMIP_KEYFORMAT_RAW"
KMIP_KEYFORMAT_OPAQUE == "KMIP_KEYFORMAT_OPAQUE"

\* the value a call that never returned (it faulted) has as its "result"
NoReturn == "none"

(* ------------------------------ operations ---------------------------- *)
OpCreate == "kmip_bio_create"
OpDestroy == "kmip_bio_destroy"
OpGet == "kmip_bio_get_symmetric_key"
OpCreateCtx == "kmip_bio_create_with_context"
OpRaw == "kmip_bio_send_request_encoding"

Ops == {OpCreate, OpDestroy, OpGet, OpCreateCtx, OpRaw}
\* the operations that build (kmip_init) and tear down (kmip_destroy) their
\* own context; the other two work on the caller's context
OwnCtxOps == {OpCreate, OpDestroy, OpGet}
\* the operations that encode a request and decode the response
CodecOps == {OpCreate, OpDestroy, OpGet, OpCreateCtx}
\* the operations with the create extractor
CreateOps == {OpCreate, OpCreateCtx}

(* ------------------------------- inputs ------------------------------- *)
\* max_message_size arguments tried
MaxMessageSizes == {0, 16, 4096}

\* Requests: `need` is the size of the encoding (for the raw operation:
\* request_size), `errAt` the offset at which the codec meets something it
\* cannot encode (0: nothing).
\* The last need is one byte more than the largest buffer the model lets
\* the retry loop reach: to this model, a codec that never stops reporting
\* "buffer full".
NeverFits == MaxBlocks * SendBlockSize + 1
Needs == {1, SendBlockSize} \cup {k * SendBlockSize + 1 : k \in 1..(MaxBlocks - 1)}
            \cup {NeverFits}
Requests == [need : Needs, errAt : {0}] \cup [need : {SendBlockSize + 1}, errAt : {1, SendBlockSize + 1}]
RawRequests == [need : {1, 16}, errAt : {0}]

\* Bytes 4..7 of the response header the modelled server sends.
LengthFields ==
    { <<0, 0, 0, 0>>, <<0, 0, 0, 16>>, <<0, 0, 0, 17>>, <<0, 0, 16, 0>>,
      <<0, 0, 16, 1>>, <<255, 255, 255, 255>>, <<255, 255, 255, 248>>,
      <<128, 0, 0, 0>>, <<127, 255, 255, 0>> }

(* ------------------------------ the heap ------------------------------ *)
\* A block: what it was acquired as, its size, how often it was released,
\* and (for caller-owned outputs) its bytes.
Block(kind, size, data) == [kind |-> kind, size |-> size, frees |-> 0, data |-> data]

Live(h, p) == p # NULL /\ p \in DOMAIN h /\ h[p].frees = 0
Dangling(h, p) == p # NULL /\ ~Live(h, p)
LiveBlocks(h) == {p \in DOMAIN h : h[p].frees = 0}

\* ctx->calloc_func succeeding: a fresh zeroed block, its address is Len(h)+1
calloc_func(h, kind, size) == Append(h, Block(kind, size, <<>>))

\* ctx->free_func: free(NULL) does nothing
free_func(h, p) == IF p = NULL THEN h ELSE [h EXCEPT ![p].frees = @ + 1]

\* free_buffer(ctx, buffer, size): zero the buffer, then ctx->free_func
free_buffer(h, p, size) == free_func(h, p)

(* ----------------------------- the context ---------------------------- *)
\* kmip_init: no buffer
kmip_init == [buffer |-> NULL, size |-> 0, index |-> 0]

\* kmip_set_buffer(ctx, buffer, size): index is kept as an offset into buffer
kmip_set_buffer(c, p, size) == [buffer |-> p, size |-> size, index |-> 0]

\* kmip_reset / kmip_rewind: the cursor returns to the buffer's start
kmip_reset(c) == [c EXCEPT !.index = 0]
kmip_rewind(c) == [c EXCEPT !.index = 0]

\* kmip_destroy: kmip_reset, then the buffer handle is cleared
kmip_destroy(c) == kmip_set_buffer(kmip_reset(c), NULL, 0)

(* ------------------------------ the codec ----------------------------- *)
\* encode_request_message(ctx, rm): the codec writes the request from the
\* buffer's start and stops at the first thing that goes wrong: the element
\* it cannot encode (at offset errAt) or the end of the buffer.
encode_request_message(c, rq) ==
    IF rq.errAt # 0 /\ rq.errAt <= c.size /\ rq.errAt <= rq.need
    THEN KMIP_NOT_IMPLEMENTED
    ELSE IF rq.need > c.size THEN KMIP_ERROR_BUFFER_FULL ELSE KMIP_OK

\* decode_int32_be on 4 bytes: a big-endian two's-complement 32-bit integer
decode_int32_be(b) ==
    (IF b[1] >= 128 THEN b[1] - 256 ELSE b[1]) * 16777216
        + b[2] * 65536 + b[3] * 256 + b[4]

(* ------------------------- the server's responses --------------------- *)
Bytes(n) == [i \in 1..n |-> 64 + i]

\* A response payload as the decoder builds it.  `present` is FALSE for a
\* NULL response_payload, `uid_present` for a NULL unique_identifier.
NoPayload ==
    [present |-> FALSE, uid_present |-> FALSE, uid |-> <<>>,
     object_type |-> KMIP_OBJTYPE_SYMMETRIC_KEY,
     key_format_type |-> KMIP_KEYFORMAT_RAW,
     key_wrapping_data |-> FALSE, key_material |-> <<>>]

IdPayloads ==
    {[NoPayload EXCEPT !.present = TRUE]}
    \cup {[NoPayload EXCEPT !.present = TRUE, !.uid_present = TRUE, !.uid = Bytes(n)] :
            n \in 0..MaxIdSize}

KeyPayloads ==
    {[NoPayload EXCEPT !.present = TRUE, !.object_type = t, !.key_format_type = f,
                       !.key_wrapping_data = w, !.key_material = Bytes(n)] :
        t \in {KMIP_OBJTYPE_SYMMETRIC_KEY, KMIP_OBJTYPE_PUBLIC_KEY},
        f \in {KMIP_KEYFORMAT_RAW, KMIP_KEYFORMAT_OPAQUE},
        w \in BOOLEAN, n \in {0, MaxIdSize}}

Payloads(o) ==
    {NoPayload} \cup
    (IF o \in CreateOps THEN IdPayloads
     ELSE IF o = OpGet THEN KeyPayloads
     ELSE {[NoPayload EXCEPT !.present = TRUE]})

BatchItems(o) ==
    [result_status : {KMIP_STATUS_SUCCESS, KMIP_STATUS_OPERATION_FAILED},
     response_payload : Payloads(o)]

\* What decode_response_message can build: any batch count, the batch item
\* array NULL or holding batch_count items.
Responses(o) ==
    {[decoded |-> TRUE, blk |-> NULL, batch_count |-> n, items_null |-> TRUE,
      batch_items |-> <<>>] : n \in 0..MaxBatch}
    \cup {[decoded |-> TRUE, blk |-> NULL, batch_count |-> n, items_null |-> FALSE,
           batch_items |-> [i \in 1..n |-> item]] :
            n \in 0..MaxBatch, item \in BatchItems(o)}

\* free_response_message(ctx, &resp_m)
free_response_message(h, m) == free_func(h, m.blk)

(* ------------------------------- state -------------------------------- *)
VARIABLES
    pc,                 \* where the call stands
    op,                 \* the operation called
    max_message_size,   \* its max_message_size argument
    request,            \* the request it sends
    heap,               \* every block the allocator handed out
    ctx,                \* struct kmip: buffer, size, index
    encoding,           \* the local `encoding`
    buffer_blocks, buffer_block_size, buffer_total_size,
    encode_result,      \* the local `encode_result`
    length,             \* the local `length`
    resp_m,             \* the decoded response message
    out,                \* the caller's output parameters
    ret,                \* the value returned
    io,                 \* the transport's log of this call
    hist                \* what happened so far in this call

inputs == <<op, max_message_size, request>>
sizes == <<buffer_blocks, buffer_block_size, buffer_total_size>>
vars == <<pc, op, max_message_size, request, heap, ctx, encoding,
          buffer_blocks, buffer_block_size, buffer_total_size,
          encode_result, length, resp_m, out, ret, io, hist>>

NoResponse == [decoded |-> FALSE, blk |-> NULL, batch_count |-> 0,
               items_null |-> TRUE, batch_items |-> <<>>]

NoHist == [full |-> 0, regrown |-> 0, allocFailed |-> FALSE, ioAtAllocFail |-> 0,
           decoderCalls |-> 0, itemsRead |-> 0, staleReset |-> FALSE,
           grown |-> FALSE, parsed |-> FALSE, decodeResult |-> "none",
           allocs |-> <<>>, twin |-> <<>>, memset |-> "none",
           header |-> <<>>]

\* A reset or teardown of the context while its buffer handle names a
\* released block.
Stale(h, c) == Dangling(h, c.buffer)

\* hist.allocs: what the allocator answered to the call's requests, in order
Answered(hs, a) == [hs EXCEPT !.allocs = Append(@, a)]

\* hist after an allocation that returned NULL
AllocFail(hs) ==
    [Answered(hs, "NULL") EXCEPT !.allocFailed = TRUE, !.ioAtAllocFail = Len(io)]

Init ==
    /\ pc = "idle"
    /\ op = OpCreate
    /\ max_message_size = 0
    /\ request = [need |-> 1, errAt |-> 0]
    /\ heap = <<>>
    /\ ctx = kmip_init
    /\ encoding = NULL
    /\ buffer_blocks = 0
    /\ buffer_block_size = 0
    /\ buffer_total_size = 0
    /\ encode_result = KMIP_OK
    /\ length = 0
    /\ resp_m = NoResponse
    /\ out = [ptr |-> UNSET, size |-> UNSET]
    /\ ret = NoReturn
    /\ io = <<>>
    /\ hist = NoHist

(* A call begins: the caller picks the operation and its arguments.  The   *)
(* first three operations start with kmip_init(&ctx, NULL, 0, KMIP_1_0).   *)
Call ==
    /\ pc = "idle"
    /\ \E o \in Ops, m \in MaxMessageSizes :
        /\ op' = o
        /\ max_message_size' = m
        /\ request' \in (IF o = OpRaw THEN RawRequests ELSE Requests)
        /\ pc' = IF o = OpRaw THEN "send_raw" ELSE "alloc"
        /\ ctx' = IF o \in OwnCtxOps THEN kmip_init ELSE ctx
    /\ UNCHANGED <<heap, encoding, sizes, encode_result, length, resp_m, out,
                   ret, io, hist>>

(* The exit of a call: `own` is what the three operations with their own   *)
(* context do to it (kmip_destroy), `other` what the context variants do.  *)
Return(value, h, c) ==
    /\ ret' = value
    /\ pc' = "done"
    /\ heap' = h
    /\ ctx' = c

\* kmip_destroy(&ctx) on the error exits of the operations owning their ctx
Teardown(h, c, hs) == [hs EXCEPT !.staleReset = @ \/ Stale(h, c)]

(* Lines 38-49 (create), 235-246, 423-434, 657-667: the first buffer.      *)
AllocEncoding ==
    /\ pc = "alloc"
    /\ buffer_blocks' = 1
    /\ buffer_block_size' = SendBlockSize
    /\ buffer_total_size' = 1 * SendBlockSize
    /\ \E ok \in BOOLEAN :
        IF ok
        THEN /\ heap' = calloc_func(heap, "send", 1 * SendBlockSize)
             /\ encoding' = Len(heap')
             /\ ctx' = kmip_set_buffer(ctx, encoding', buffer_total_size')
             /\ pc' = "encode"
             /\ hist' = Answered(hist, "block")
             /\ UNCHANGED ret
        ELSE /\ encoding' = NULL
             /\ IF op \in OwnCtxOps
                THEN /\ Return(KMIP_MEMORY_ALLOC_FAILED, heap, kmip_destroy(ctx))
                     /\ hist' = Teardown(heap, ctx, AllocFail(hist))
                ELSE /\ Return(KMIP_MEMORY_ALLOC_FAILED, heap, ctx)
                     /\ hist' = AllocFail(hist)
    /\ UNCHANGED <<inputs, encode_result, length, resp_m, out, io>>

GrowBlocks_Double(b) == b + 2

\* line 85: buffer_blocks += 1
GrowBlocks(b) == b + 1

\* line 80: the loop's condition
MustRetry_Capped(r) == r = KMIP_ERROR_BUFFER_FULL /\ buffer_blocks < 2
MustRetry(r) == r = KMIP_ERROR_BUFFER_FULL

\* hist after one encode_request_message call with result r
Encoded(hs, r) == IF r = KMIP_ERROR_BUFFER_FULL THEN [hs EXCEPT !.full = @ + 1] ELSE hs

\* the cursor after encode_request_message: past the encoding when it fit
encoded_ctx(c, rq, r) == IF r = KMIP_OK THEN [c EXCEPT !.index = rq.need] ELSE c

(* Line 79 (279, 467, 697): the first encode attempt.                      *)
EncodeRequest ==
    /\ pc = "encode"
    /\ encode_result' = encode_request_message(ctx, request)
    /\ ctx' = encoded_ctx(ctx, request, encode_result')
    /\ hist' = Encoded(hist, encode_result')
    /\ pc' = "encoded"
    /\ UNCHANGED <<inputs, heap, encoding, sizes, length, resp_m, out, ret, io>>

\* line 83: the too-small buffer is released before the next is acquired
ReleaseOld_Kept(h, p) == h
ReleaseOld(h, p) == free_func(h, p)

(* Lines 80-101 (280-301, 468-489, 698-719): one turn of the retry loop:   *)
(* reset the context, free the buffer, allocate one block more, encode     *)
(* again.                                                                  *)
GrowEncoding ==
    /\ pc = "encoded"
    /\ MustRetry(encode_result)
    /\ buffer_blocks < MaxBlocks
    /\ LET c1 == kmip_reset(ctx)
           hs1 == Teardown(heap, ctx, hist)
           h1 == ReleaseOld(heap, encoding)
           blocks == GrowBlocks(buffer_blocks)
           total == blocks * buffer_block_size
       IN /\ buffer_blocks' = blocks
          /\ buffer_total_size' = total
          /\ UNCHANGED buffer_block_size
          /\ \E ok \in BOOLEAN :
              IF ok
              THEN LET h2 == calloc_func(h1, "send", blocks * buffer_block_size)
                       c2 == kmip_set_buffer(c1, Len(h2), total)
                       r == encode_request_message(c2, request)
                   IN /\ heap' = h2
                      /\ encoding' = Len(h2)
                      /\ encode_result' = r
                      /\ ctx' = encoded_ctx(c2, request, r)
                      /\ hist' = Encoded(Answered([hs1 EXCEPT !.regrown = @ + 1],
                                                  "block"), r)
                      /\ UNCHANGED <<pc, ret>>
              ELSE /\ encoding' = NULL
                   /\ UNCHANGED encode_result
                   /\ IF op \in OwnCtxOps
                      THEN /\ Return(KMIP_MEMORY_ALLOC_FAILED, h1, kmip_destroy(c1))
                           /\ hist' = Teardown(h1, c1, AllocFail(hs1))
                      ELSE /\ Return(KMIP_MEMORY_ALLOC_FAILED, h1,
                                     kmip_set_buffer(c1, NULL, 0))
                           /\ hist' = AllocFail(hs1)
    /\ UNCHANGED <<inputs, length, resp_m, out, io>>

\* ctx->free_func(ctx->state, p) aborts the program: an overrunning memset
\* that returned has overwritten the allocator's record of the block
FreeAborts(hs, p) == hs.memset = "broken" /\ p # NULL

\* the call ends inside free_buffer, before anything after it has run
Aborted(c, hs) ==
    /\ pc' = "fault"
    /\ ctx' = c
    /\ hist' = hs
    /\ UNCHANGED <<heap, encoding, ret>>

\* The error exits after the buffer was set: free_buffer, then kmip_destroy
\* (own context) or kmip_set_buffer(ctx, NULL, 0) (caller's context).
FailWith(value, c, size, hs) ==
    LET h1 == free_buffer(heap, encoding, size)
    IN IF FreeAborts(hs, encoding)
       THEN Aborted(c, hs)
       ELSE /\ encoding' = NULL
            /\ IF op \in OwnCtxOps
               THEN /\ Return(value, h1, kmip_destroy(c))
                    /\ hist' = Teardown(h1, c, hs)
               ELSE /\ Return(value, h1, kmip_set_buffer(c, NULL, 0))
                    /\ hist' = hs

(* Lines 103-109 (303-309, 491-497, 721-727): any other encode error.      *)
EncodeFailed ==
    /\ pc = "encoded"
    /\ ~MustRetry(encode_result)
    /\ encode_result # KMIP_OK
    /\ FailWith(encode_result, ctx, buffer_total_size, hist)
    /\ UNCHANGED <<inputs, sizes, encode_result, length, resp_m, out, io>>

\* what BIO_write / BIO_read can report for a transfer of n bytes: an error,
\* fewer bytes than asked, or all; asked for a negative number, an error or
\* nothing
Transfers(n) == {-1} \cup (IF n > 0 THEN {n - 1, n} ELSE {0})

\* lines 112, 171: the transport moved another number of bytes than asked
Short_OnlyError(moved, n) == moved < 0
Short(moved, n) == moved # n

Wrote(n, sent) == Append(io, [kind |-> "write", want |-> n, got |-> sent])
Read(n, recv) == Append(io, [kind |-> "read", want |-> n, got |-> recv])

(* Lines 111-121 (311-321, 499-509, 729-740): write the encoding; a short  *)
(* write ends the call, a full one releases the buffer.                    *)
SendRequest ==
    /\ pc = "encoded"
    /\ encode_result = KMIP_OK
    /\ LET n == ctx.index
       IN \E sent \in Transfers(n) :
           /\ io' = Wrote(n, sent)
           /\ IF Short(sent, n)
              THEN FailWith(KMIP_IO_FAILURE, ctx, buffer_total_size, hist)
              ELSE /\ heap' = free_buffer(heap, encoding, buffer_total_size)
                   /\ encoding' = NULL
                   /\ ctx' = IF op \in OwnCtxOps THEN ctx
                             ELSE kmip_set_buffer(ctx, NULL, 0)
                   /\ pc' = "alloc_header"
                   /\ UNCHANGED <<ret, hist>>
    /\ UNCHANGED <<inputs, sizes, encode_result, length, resp_m, out>>

(* Lines 904-908: the raw operation writes the caller's bytes as they are. *)
SendRaw ==
    /\ pc = "send_raw"
    /\ \E sent \in Transfers(request.need) :
        /\ io' = Wrote(request.need, sent)
        /\ IF Short(sent, request.need)
           THEN Return(KMIP_IO_FAILURE, heap, ctx)
           ELSE /\ pc' = "alloc_header"
                /\ UNCHANGED <<heap, ctx, ret>>
    /\ UNCHANGED <<inputs, encoding, sizes, encode_result, length, resp_m, out, hist>>

(* Lines 126-135 (326-335, 514-523, 745-753, 913-922): the header buffer.  *)
AllocHeader ==
    /\ pc = "alloc_header"
    /\ buffer_blocks' = 1
    /\ buffer_block_size' = HeaderSize
    /\ buffer_total_size' = 1 * HeaderSize
    /\ \E ok \in BOOLEAN :
        IF ok
        THEN /\ heap' = calloc_func(heap, "recv", 1 * HeaderSize)
             /\ encoding' = Len(heap')
             /\ pc' = "read_header"
             /\ hist' = Answered(hist, "block")
             /\ UNCHANGED <<ctx, ret>>
        ELSE /\ encoding' = NULL
             /\ IF op \in OwnCtxOps
                THEN /\ Return(KMIP_MEMORY_ALLOC_FAILED, heap, kmip_destroy(ctx))
                     /\ hist' = Teardown(heap, ctx, AllocFail(hist))
                ELSE /\ Return(KMIP_MEMORY_ALLOC_FAILED, heap, ctx)
                     /\ hist' = AllocFail(hist)
    /\ UNCHANGED <<inputs, encode_result, length, resp_m, out, io>>

\* bytes 0..3 of a response frame: the codec's tag and type of a response
\* message; this layer never looks at them
FramePrefix == <<66, 0, 123, 1>>

(* Lines 137-144 (337-344, 525-532, 755-762, 924-930): read the 8 header   *)
(* bytes.  The raw operation has not set the context's buffer and leaves   *)
(* the context alone on a short read.                                      *)
ReadHeader ==
    /\ pc = "read_header"
    /\ \E recv \in Transfers(buffer_total_size) :
        /\ io' = Read(buffer_total_size, recv)
        /\ IF Short(recv, buffer_total_size)
           THEN IF op = OpRaw
                THEN /\ Return(KMIP_IO_FAILURE,
                               free_buffer(heap, encoding, buffer_total_size), ctx)
                     /\ encoding' = NULL
                     /\ UNCHANGED hist
                ELSE FailWith(KMIP_IO_FAILURE, ctx, buffer_total_size, hist)
           ELSE \E f \in LengthFields :
                /\ heap' = [heap EXCEPT ![encoding].data = FramePrefix \o f]
                /\ hist' = [hist EXCEPT !.header = FramePrefix \o f]
                /\ pc' = "check_length"
                /\ UNCHANGED <<ctx, encoding, ret>>
    /\ UNCHANGED <<inputs, sizes, encode_result, length, resp_m, out>>

ExceedsMax_OffByOne(len, max) == len >= max

\* line 152: the declared length is larger than the caller allows
ExceedsMax_ContextCopyDiffers(len, max) ==
    IF op = OpCreateCtx THEN len >= max ELSE len > max
ExceedsMax(len, max) == len > max

(* Lines 146-158 (346-358, 534-546, 764-776, 932-944): point the context   *)
(* at the header, read the length field at offset 4, rewind, and reject a  *)
(* length above max_message_size.                                          *)
CheckLength ==
    /\ pc = "check_length"
    /\ LET c1 == kmip_set_buffer(ctx, encoding, buffer_total_size)
           c2 == [c1 EXCEPT !.index = @ + 4]
           len == decode_int32_be(SubSeq(heap[encoding].data, c2.index + 1, c2.index + 4))
           c3 == kmip_rewind(c2)
           hs1 == [hist EXCEPT !.parsed = TRUE]
       IN /\ length' = len
          /\ IF ExceedsMax(len, max_message_size)
             THEN FailWith(KMIP_EXCEED_MAX_MESSAGE_SIZE, c3, buffer_total_size, hs1)
             ELSE /\ ctx' = c3
                  /\ pc' = "extend"
                  /\ hist' = hs1
                  /\ UNCHANGED <<heap, encoding, ret>>
    /\ UNCHANGED <<inputs, sizes, encode_result, resp_m, out, io>>

\* ctx->realloc_func(ctx->state, p, n): what the allocator can answer, as
\* pairs (heap, pointer).  It can fail (NULL, the old block untouched), resize
\* the block where it is, or move it (a new block with the old bytes, the old
\* one released); a smaller block keeps the first n bytes.  A size of 2^63 or more (n < 0 here) cannot be served; a
\* size of 0 may release the block and return NULL.
realloc_func(h, p, n) ==
    LET failed == [h |-> h, p |-> NULL]
        kept == IF Len(h[p].data) > n THEN SubSeq(h[p].data, 1, n) ELSE h[p].data
        inplace == [h |-> [h EXCEPT ![p].size = n, ![p].data = kept], p |-> p]
        moved == [h |-> Append(free_func(h, p), Block(h[p].kind, n, kept)),
                  p |-> Len(h) + 1]
        released == [h |-> free_func(h, p), p |-> NULL]
    IN IF n < 0 THEN {failed}
       ELSE IF n = 0 THEN {released, inplace, moved}
       ELSE {failed, inplace, moved}

\* ctx->memset_func(p + off, 0, n) writes outside the block when n is a
\* size_t of 2^63 or more (n < 0 here) or p is NULL and n is not 0:
\* undefined behaviour.  It can fault; on a block it can also return, and
\* then it has zeroed what lies around its start: the bytes of the block
\* and, with an allocator that keeps its records next to the block, the
\* block's record.  Through NULL it faults.
MemsetOverruns(p, n) == n < 0 \/ (p = NULL /\ n > 0)
MemsetFaults(p, n) == MemsetOverruns(p, n)
MemsetReturns(p, n) == ~MemsetOverruns(p, n) \/ p # NULL

\* what a memset that overran and returned leaves: "overrun" when only the
\* block's bytes are lost, "broken" when the allocator's record of the block
\* is lost too
Overruns == {"overrun", "broken"}

\* the heap after memset_func(p + off, 0, n) returned
Zeroed(h, p, n) ==
    IF MemsetOverruns(p, n)
    THEN [h EXCEPT ![p].data = [i \in 1..Len(@) |-> 0]]
    ELSE h

\* hist after realloc answered r
Extended(r) ==
    LET hs1 == [hist EXCEPT !.grown = TRUE]
    IN IF r.p = NULL
       THEN IF r.h = heap THEN AllocFail(hs1)
            ELSE Answered(AllocFail(hs1), "released")
       ELSE Answered(hs1, IF r.p = encoding THEN "inplace" ELSE "moved")

(* Lines 160-168 (360-368, 548-556, 778-786, 946-955): grow the header     *)
(* buffer by `length` and zero the new part.  The result of realloc is not *)
(* tested, nor is the sign of length: buffer_block_size += length is       *)
(* computed in size_t, 8 + length modulo 2^64.                             *)
ExtendBuffer ==
    /\ pc = "extend"
    /\ \E r \in realloc_func(heap, encoding, buffer_total_size + length) :
        /\ encoding' = r.p
        /\ \/ /\ MemsetFaults(r.p, length)
              /\ pc' = "fault"
              /\ heap' = r.h
              /\ hist' = [Extended(r) EXCEPT !.memset = "fault"]
              /\ UNCHANGED sizes
           \/ /\ MemsetReturns(r.p, length)
              /\ pc' = "read_body"
              /\ heap' = Zeroed(r.h, r.p, length)
              /\ \E left \in IF MemsetOverruns(r.p, length) THEN Overruns ELSE {"ok"} :
                    hist' = [Extended(r) EXCEPT !.memset = left]
              /\ buffer_block_size' = buffer_block_size + length
              /\ buffer_total_size' = buffer_blocks * buffer_block_size'
              /\ UNCHANGED buffer_blocks
    /\ UNCHANGED <<inputs, ctx, encode_result, length, resp_m, out, ret, io>>

(* Lines 170-177 (370-377, 558-565, 788-795, 957-964): read the body.      *)
ReadBody ==
    /\ pc = "read_body"
    /\ \E recv \in Transfers(length) :
        /\ io' = Read(length, recv)
        /\ IF Short(recv, length)
           THEN FailWith(KMIP_IO_FAILURE, ctx, buffer_total_size, hist)
           ELSE /\ pc' = IF op = OpRaw THEN "return_raw" ELSE "decode"
                /\ UNCHANGED <<heap, ctx, encoding, ret, hist>>
    /\ UNCHANGED <<inputs, sizes, encode_result, length, resp_m, out>>

(* Lines 966-971: the raw operation hands the frame to its caller.         *)
ReturnRaw_KeepsHandle ==
    /\ pc = "return_raw"
    /\ out' = [ptr |-> encoding, size |-> buffer_total_size]
    /\ Return(KMIP_OK, heap, ctx)
    /\ UNCHANGED <<inputs, encoding, sizes, encode_result, length, resp_m, io, hist>>

ReturnRaw ==
    /\ pc = "return_raw"
    /\ out' = [ptr |-> encoding, size |-> buffer_total_size]
    /\ Return(KMIP_OK, heap, kmip_set_buffer(ctx, NULL, 0))
    /\ UNCHANGED <<inputs, encoding, sizes, encode_result, length, resp_m, io, hist>>

\* decode_response_message can build a message only from a frame with a
\* body: the response header is mandatory
Decodable(c) == c.size > HeaderSize

\* What decode_response_message returns when it does not return KMIP_OK.
DecodeErrors == {KMIP_TAG_MISMATCH, KMIP_TYPE_MISMATCH}

(* Lines 179-191 (379-391, 567-579, 797-811): reset the context, point it  *)
(* at the frame and decode.  The decoder reads the buffer, so a NULL       *)
(* buffer (realloc failed, length 0) is a fault.  create_with_context      *)
(* clears the context's buffer right after decoding (line 804).            *)
DecodeResponse ==
    /\ pc = "decode"
    /\ LET c1 == kmip_reset(ctx)
           hs1 == [Teardown(heap, ctx, hist) EXCEPT !.decoderCalls = @ + 1]
           c2 == kmip_set_buffer(c1, encoding, buffer_block_size)
           c3 == IF op \in OwnCtxOps THEN c2 ELSE kmip_set_buffer(c2, NULL, 0)
       IN IF encoding = NULL
          THEN /\ pc' = "fault"
               /\ ctx' = c2
               /\ hist' = hs1
               /\ UNCHANGED <<heap, encoding, resp_m, ret>>
          ELSE \/ \* decode_result != KMIP_OK
                  \E e \in DecodeErrors :
                    LET hs2 == [hs1 EXCEPT !.decodeResult = e]
                    IN /\ IF op \in OwnCtxOps
                          THEN FailWith(e, c2, buffer_total_size, hs2)
                          ELSE IF FreeAborts(hs2, encoding)
                               THEN Aborted(c3, hs2)
                               ELSE /\ Return(e, free_buffer(heap, encoding,
                                                             buffer_total_size), c3)
                                    /\ encoding' = NULL
                                    /\ hist' = hs2
                       /\ UNCHANGED resp_m
               \/ \E m \in Responses(op) :
                    /\ Decodable(c2)
                    /\ heap' = calloc_func(heap, "resp", 0)
                    /\ resp_m' = [m EXCEPT !.blk = Len(heap')]
                    /\ ctx' = c3
                    /\ hist' = [hs1 EXCEPT !.decodeResult = KMIP_OK]
                    /\ pc' = "shape"
                    /\ UNCHANGED <<encoding, ret>>
    /\ UNCHANGED <<inputs, sizes, encode_result, length, out, io>>

BadShape_AtLeastOne(m) == m.batch_count < 1 \/ m.items_null

\* line 194: the response does not hold exactly one batch item
BadShape(m) == m.batch_count # 1 \/ m.items_null

(* Lines 193-200 (393-400, 813-819): the shape check of create, destroy    *)
(* and create_with_context.                                                *)
CheckShape ==
    /\ pc = "shape"
    /\ op # OpGet
    /\ IF BadShape(resp_m)
       THEN IF op \in OwnCtxOps
            THEN FailWith(KMIP_MALFORMED_RESPONSE, ctx, buffer_total_size, hist)
            ELSE /\ Return(KMIP_MALFORMED_RESPONSE,
                           free_buffer(heap, encoding, buffer_total_size), ctx)
                 /\ encoding' = NULL
                 /\ UNCHANGED hist
       ELSE /\ pc' = IF op = OpDestroy THEN "status" ELSE "extract_id"
            /\ UNCHANGED <<heap, ctx, encoding, ret, hist>>
    /\ UNCHANGED <<inputs, sizes, encode_result, length, resp_m, out, io>>

\* the exits of kmip_bio_get_symmetric_key after decoding:
\* free_response_message, kmip_set_buffer(&ctx, NULL, 0), kmip_destroy
GetExit(value, h, hs) ==
    LET c1 == kmip_set_buffer(ctx, NULL, 0)
    IN /\ Return(value, free_response_message(h, resp_m), kmip_destroy(c1))
       /\ hist' = Teardown(h, c1, hs)

(* Lines 581-591: kmip_bio_get_symmetric_key releases the buffer first,    *)
(* then checks the shape.                                                  *)
CheckShapeGet ==
    /\ pc = "shape"
    /\ op = OpGet
    /\ encoding' = NULL
    /\ LET h1 == free_buffer(heap, encoding, buffer_total_size)
       IN IF BadShape(resp_m)
          THEN GetExit(KMIP_MALFORMED_RESPONSE, h1, hist)
          ELSE /\ heap' = h1
               /\ pc' = "get_status"
               /\ UNCHANGED <<ctx, ret, hist>>
    /\ UNCHANGED <<inputs, sizes, encode_result, length, resp_m, out, io>>

\* line 202: struct response_batch_item resp_item = resp_m.batch_items[0]
FirstItem(m) == m.batch_items[1]
ItemRead(hs) == [hs EXCEPT !.itemsRead = @ + 1]

\* the common end of create and destroy (lines 219-225, 407-413, 837-842):
\* free_response_message, free_buffer, kmip_set_buffer(NULL), kmip_destroy
Finish_KeepsResponse(value, h, hs) ==
    LET h1 == free_buffer(h, encoding, buffer_total_size)
        c1 == kmip_set_buffer(ctx, NULL, 0)
    IN /\ encoding' = NULL
       /\ IF op \in OwnCtxOps
          THEN /\ Return(value, h1, kmip_destroy(c1))
               /\ hist' = Teardown(h1, c1, hs)
          ELSE /\ Return(value, h1, c1)
               /\ hist' = hs

Finish(value, h, hs) ==
    LET h1 == free_buffer(free_response_message(h, resp_m), encoding, buffer_total_size)
        c1 == kmip_set_buffer(ctx, NULL, 0)
    IN /\ encoding' = NULL
       /\ IF op \in OwnCtxOps
          THEN /\ Return(value, h1, kmip_destroy(c1))
               /\ hist' = Teardown(h1, c1, hs)
          ELSE /\ Return(value, h1, c1)
               /\ hist' = hs

(* Lines 402-413: kmip_bio_destroy returns the batch item's status.        *)
ReturnStatus ==
    /\ pc = "status"
    /\ Finish(FirstItem(resp_m).result_status, heap, ItemRead(hist))
    /\ UNCHANGED <<inputs, sizes, encode_result, length, resp_m, out, io>>

(* Lines 202-225 (821-842): the create extractor.  Neither the payload,    *)
(* nor the identifier, nor the result of calloc is tested: reading through *)
(* a NULL one is a fault, as is copying into a NULL result_id.  *id_size   *)
(* is written before the copy, *id after it.                               *)
ExtractId ==
    /\ pc = "extract_id"
    /\ LET item == FirstItem(resp_m)
           pld == item.response_payload
           n == Len(pld.uid)
           hs1 == ItemRead(hist)
       IN IF ~pld.present \/ ~pld.uid_present
          THEN /\ pc' = "fault"
               /\ hist' = hs1
               /\ UNCHANGED <<heap, ctx, encoding, out, ret>>
          ELSE \E ok \in BOOLEAN :
               IF ok
               THEN LET h1 == Append(heap, Block("out", n, pld.uid))
                    IN /\ out' = [ptr |-> Len(h1), size |-> n]
                       /\ Finish(item.result_status, h1, Answered(hs1, "block"))
               ELSE IF n > 0
                    THEN /\ out' = [out EXCEPT !.size = n]
                         /\ pc' = "fault"
                         /\ hist' = AllocFail(hs1)
                         /\ UNCHANGED <<heap, ctx, encoding, ret>>
                    ELSE /\ out' = [ptr |-> NULL, size |-> n]
                         /\ Finish(item.result_status, heap, AllocFail(hs1))
    /\ UNCHANGED <<inputs, sizes, encode_result, length, resp_m, io>>

(* Lines 593-602: a status other than success ends get_symmetric_key.      *)
GetStatus ==
    /\ pc = "get_status"
    /\ IF FirstItem(resp_m).result_status # KMIP_STATUS_SUCCESS
       THEN GetExit(FirstItem(resp_m).result_status, heap, ItemRead(hist))
       ELSE /\ pc' = "get_object"
            /\ hist' = ItemRead(hist)
            /\ UNCHANGED <<heap, ctx, ret>>
    /\ UNCHANGED <<inputs, encoding, sizes, encode_result, length, resp_m, out, io>>

\* lines 607, 617-618: the object is not a raw, unwrapped symmetric key
WrongType_Never(pld) == FALSE
WrongType(pld) == pld.object_type # KMIP_OBJTYPE_SYMMETRIC_KEY
WrongBlock_NoWrapCheck(pld) == pld.key_format_type # KMIP_KEYFORMAT_RAW
WrongBlock(pld) == pld.key_format_type # KMIP_KEYFORMAT_RAW \/ pld.key_wrapping_data

(* Lines 604-624: the object checks; the payload itself is not tested.     *)
GetObject ==
    /\ pc = "get_object"
    /\ LET pld == FirstItem(resp_m).response_payload
       IN IF ~pld.present
          THEN /\ pc' = "fault"
               /\ UNCHANGED <<heap, ctx, ret, hist>>
          ELSE IF WrongType(pld) \/ WrongBlock(pld)
          THEN GetExit(KMIP_OBJECT_MISMATCH, heap, hist)
          ELSE /\ pc' = "get_key"
               /\ UNCHANGED <<heap, ctx, ret, hist>>
    /\ UNCHANGED <<inputs, encoding, sizes, encode_result, length, resp_m, out, io>>

(* Lines 626-645: copy the key material.  free_buffer at line 640 gets the *)
(* NULL `encoding`.                                                        *)
ExtractKey ==
    /\ pc = "get_key"
    /\ LET material == FirstItem(resp_m).response_payload.key_material
           n == Len(material)
       IN \E ok \in BOOLEAN :
           IF ok
           THEN LET h1 == Append(heap, Block("out", n, material))
                IN /\ out' = [ptr |-> Len(h1), size |-> n]
                   /\ Finish(KMIP_STATUS_SUCCESS, h1, Answered(hist, "block"))
           ELSE IF n > 0
                THEN /\ out' = [out EXCEPT !.size = n]
                     /\ pc' = "fault"
                     /\ hist' = AllocFail(hist)
                     /\ UNCHANGED <<heap, ctx, encoding, ret>>
                ELSE /\ out' = [ptr |-> NULL, size |-> n]
                     /\ Finish(KMIP_STATUS_SUCCESS, heap, AllocFail(hist))
    /\ UNCHANGED <<inputs, sizes, encode_result, length, resp_m, io>>

\* the operations that work on a context of their caller
CallerCtxOps == {OpCreateCtx, OpRaw}

(* The caller of a context variant makes its next call on the same        *)
(* context.  The context is carried over as the call left it; the new     *)
(* call's arguments, locals and log of blocks start afresh, so a buffer    *)
(* handle still set names a block of an earlier call: one that was        *)
(* released, or that now belongs to the caller.                            *)
NextCall ==
    /\ pc = "done"
    /\ op \in CallerCtxOps
    /\ pc' = "idle"
    /\ UNCHANGED ctx
    /\ op' = OpCreate
    /\ max_message_size' = 0
    /\ request' = [need |-> 1, errAt |-> 0]
    /\ heap' = <<>>
    /\ encoding' = NULL
    /\ buffer_blocks' = 0
    /\ buffer_block_size' = 0
    /\ buffer_total_size' = 0
    /\ encode_result' = KMIP_OK
    /\ length' = 0
    /\ resp_m' = NoResponse
    /\ out' = [ptr |-> UNSET, size |-> UNSET]
    /\ ret' = NoReturn
    /\ io' = <<>>
    /\ hist' = NoHist

\* The 8 bytes the transport delivered as the response header (none yet:
\* the empty sequence).
HeaderBytes == hist.header

\* What is seen of a call from outside: how it ended, the transport
\* operations it issued, what it returned and wrote to its outputs; and what
\* transport, decoder and allocator answered it.
Observation ==
    [ended |-> pc,
     ret |-> ret,
     requests |-> [i \in DOMAIN io |-> [kind |-> io[i].kind, want |-> io[i].want]],
     id_size |-> out.size,
     id_ptr |-> IF out.ptr = UNSET THEN "unset"
                ELSE IF out.ptr = NULL THEN "NULL" ELSE "block",
     id |-> IF out.ptr \in DOMAIN heap THEN heap[out.ptr].data ELSE <<>>,
     gots |-> [i \in DOMAIN io |-> io[i].got],
     header |-> HeaderBytes,
     decodeResult |-> hist.decodeResult,
     message |-> [resp_m EXCEPT !.blk = NULL],
     allocs |-> hist.allocs,
     memset |-> hist.memset]

(* kmip_bio_create has ended; the same arguments are now given to          *)
(* kmip_bio_create_with_context with a fresh context (kmip_init), what was *)
(* seen of the first call being kept in hist.twin.                         *)
CallWithContext ==
    /\ pc \in {"done", "fault"}
    /\ op = OpCreate
    /\ hist.twin = <<>>
    /\ op' = OpCreateCtx
    /\ UNCHANGED <<max_message_size, request>>
    /\ pc' = "alloc"
    /\ ctx' = kmip_init
    /\ heap' = <<>>
    /\ encoding' = NULL
    /\ buffer_blocks' = 0
    /\ buffer_block_size' = 0
    /\ buffer_total_size' = 0
    /\ encode_result' = KMIP_OK
    /\ length' = 0
    /\ resp_m' = NoResponse
    /\ out' = [ptr |-> UNSET, size |-> UNSET]
    /\ ret' = NoReturn
    /\ io' = <<>>
    /\ hist' = [NoHist EXCEPT !.twin = <<Observation>>]

Next ==
    \/ Call
    \/ AllocEncoding
    \/ EncodeRequest
    \/ GrowEncoding
    \/ EncodeFailed
    \/ SendRequest
    \/ SendRaw
    \/ AllocHeader
    \/ ReadHeader
    \/ CheckLength
    \/ ExtendBuffer
    \/ ReadBody
    \/ ReturnRaw
    \/ DecodeResponse
    \/ CheckShape
    \/ CheckShapeGet
    \/ ReturnStatus
    \/ ExtractId
    \/ GetStatus
    \/ GetObject
    \/ ExtractKey
    \/ NextCall
    \/ CallWithContext

(* ======================= properties of the claims ====================== *)
Returned == pc = "done"
OutUnset == out = [ptr |-> UNSET, size |-> UNSET]
Success(v) == v \in {KMIP_OK, KMIP_STATUS_SUCCESS}
Reads == {i \in DOMAIN io : io[i].kind = "read"}
Writes == {i \in DOMAIN io : io[i].kind = "write"}
ShortIo == \E i \in DOMAIN io : io[i].got # io[i].want
WorkingBlocks == {p \in DOMAIN heap : heap[p].kind \in {"send", "recv"}}

\* C1: once the length field L is parsed, L > max_message_size means the
\* call has returned KMIP_EXCEED_MAX_MESSAGE_SIZE with one read issued (the
\* header's), realloc never called and the header buffer released; a length
\* up to max_message_size is never answered with that code.
C1_LengthAboveMaxRejected ==
    hist.parsed =>
        /\ length > max_message_size =>
            /\ Returned
            /\ ret = KMIP_EXCEED_MAX_MESSAGE_SIZE
            /\ Cardinality(Reads) = 1
            /\ ~hist.grown
            /\ \A p \in DOMAIN heap : heap[p].kind = "recv" => heap[p].frees = 1
        /\ length <= max_message_size => ret # KMIP_EXCEED_MAX_MESSAGE_SIZE

C1_Witness ==
    /\ hist.parsed
    /\ length = 17
    /\ max_message_size = 16
    /\ Returned
    /\ op = OpRaw

\* C2 (as claimed): a call that saw a short write or a short read returns
\* KMIP_IO_FAILURE with no block of this call still allocated.
C2_ShortIoReleasesAll ==
    (Returned /\ ShortIo) =>
        /\ ret = KMIP_IO_FAILURE
        /\ LiveBlocks(heap) = {}

\* C3 (as claimed): when a call returns, every working buffer it acquired
\* has been released exactly once, but for the frame the raw operation
\* hands to its caller on success.
C3_BuffersReleasedOnce ==
    Returned =>
        \A p \in WorkingBlocks :
            IF op = OpRaw /\ ret = KMIP_OK /\ p = out.ptr
            THEN heap[p].frees = 0
            ELSE heap[p].frees = 1

\* C4 (as claimed): after an allocation returned NULL the call has returned
\* KMIP_MEMORY_ALLOC_FAILED and the transport saw nothing more.
C4_AllocFailureEndsCall ==
    hist.allocFailed =>
        /\ Returned
        /\ ret = KMIP_MEMORY_ALLOC_FAILED
        /\ Len(io) = hist.ioAtAllocFail

\* C5 (as claimed): a call that returns anything but success has left the
\* caller's output parameters as they were.
C5_OutputsOnlyOnSuccess ==
    (Returned /\ ~Success(ret)) => OutUnset

\* C6 (as claimed): a call that decoded a response has released the decoded
\* message when it returns.
C6_ResponseReleased ==
    (Returned /\ resp_m.decoded) => heap[resp_m.blk].frees = 1

\* C7: a decoded response whose batch count is not 1 or whose batch item
\* array is NULL makes the call return KMIP_MALFORMED_RESPONSE: it never
\* reaches the statements that read the batch item, and no output is
\* written.
C7_BadShapeIsMalformed ==
    (resp_m.decoded /\ (resp_m.batch_count # 1 \/ resp_m.items_null)) =>
        /\ pc \in {"shape", "done"}
        /\ Returned => ret = KMIP_MALFORMED_RESPONSE
        /\ hist.itemsRead = 0
        /\ OutUnset

C7_Witness ==
    /\ Returned
    /\ resp_m.decoded
    /\ resp_m.batch_count = 2
    /\ ~resp_m.items_null
    /\ op = OpGet

\* the sole batch item of a well-shaped response carries a payload that is
\* not a raw, unwrapped symmetric key
MismatchedKey ==
    /\ op = OpGet
    /\ resp_m.decoded
    /\ resp_m.batch_count = 1
    /\ ~resp_m.items_null
    /\ LET pld == resp_m.batch_items[1].response_payload
       IN /\ pld.present
          /\ \/ pld.object_type # KMIP_OBJTYPE_SYMMETRIC_KEY
             \/ pld.key_format_type # KMIP_KEYFORMAT_RAW
             \/ pld.key_wrapping_data

\* C8 (as claimed): kmip_bio_get_symmetric_key answers every response whose
\* object is not a raw, unwrapped symmetric key with KMIP_OBJECT_MISMATCH
\* and writes no output.
C8_MismatchAlways ==
    (Returned /\ MismatchedKey) => (ret = KMIP_OBJECT_MISMATCH /\ OutUnset)

\* C8 (amended): when the batch item's result status is success, an object
\* that is not a raw, unwrapped symmetric key yields KMIP_OBJECT_MISMATCH;
\* with any other status that status is returned.  No output is written in
\* either case.
C8_MismatchOnSuccessStatus ==
    (Returned /\ MismatchedKey) =>
        /\ ret = IF resp_m.batch_items[1].result_status = KMIP_STATUS_SUCCESS
                 THEN KMIP_OBJECT_MISMATCH
                 ELSE resp_m.batch_items[1].result_status
        /\ OutUnset

C8_Witness ==
    /\ Returned
    /\ MismatchedKey
    /\ resp_m.batch_items[1].result_status = KMIP_STATUS_SUCCESS
    /\ resp_m.batch_items[1].response_payload.object_type = KMIP_OBJTYPE_SYMMETRIC_KEY
    /\ resp_m.batch_items[1].response_payload.key_format_type = KMIP_KEYFORMAT_RAW
    /\ resp_m.batch_items[1].response_payload.key_wrapping_data
    /\ ret = KMIP_OBJECT_MISMATCH

\* C9: when the encode succeeds after N "buffer full" answers, the call
\* made N regrowths: the heap holds the N + 1 send buffers of 1024, 2048,
\* ... bytes, all released but the last, and the last one, of (N+1)*1024
\* bytes, is the smallest such buffer that holds the encoding.
C9_GrowthCorrect ==
    (pc = "encoded" /\ encode_result = KMIP_OK) =>
        LET N == hist.full
        IN /\ hist.regrown = N
           /\ Len(heap) = N + 1
           /\ \A k \in 1..(N + 1) :
                /\ heap[k].kind = "send"
                /\ heap[k].size = k * 1024
                /\ heap[k].frees = IF k <= N THEN 1 ELSE 0
           /\ encoding = N + 1
           /\ buffer_total_size = (N + 1) * 1024
           /\ ctx.size = buffer_total_size
           /\ request.need <= buffer_total_size
           /\ N > 0 => request.need > buffer_total_size - 1024

C9_Witness ==
    /\ pc = "encoded"
    /\ encode_result = KMIP_OK
    /\ hist.full = 2
    /\ hist.regrown = 2
    /\ buffer_total_size = 3072

\* C10 (as claimed): the raw operation writes once, never runs the encoder,
\* the retry loop or the decoder, returns one of four codes, and on success
\* hands out the whole frame: a block of 8 + length bytes starting with the
\* header, with response_size = 8 + length.
C10_RawPassthrough ==
    op = OpRaw =>
        /\ Cardinality(Writes) <= 1
        /\ hist.full = 0 /\ hist.regrown = 0 /\ hist.decoderCalls = 0
        /\ Returned =>
            ret \in {KMIP_OK, KMIP_IO_FAILURE, KMIP_MEMORY_ALLOC_FAILED,
                     KMIP_EXCEED_MAX_MESSAGE_SIZE}
        /\ (Returned /\ ret = KMIP_OK) =>
            /\ Live(heap, out.ptr)
            /\ heap[out.ptr].size = HeaderSize + length
            /\ out.size = HeaderSize + length
            /\ SubSeq(heap[out.ptr].data, 1, 4) = FramePrefix

(* ---------------------------- C11 .. C20 ------------------------------ *)
Terminal == pc \in {"done", "fault"}
WellShaped == resp_m.decoded /\ resp_m.batch_count = 1 /\ ~resp_m.items_null

\* C11 (as claimed): when kmip_bio_create or kmip_bio_create_with_context
\* got through every transport, codec and shape step and the batch item
\* reports success and carries a unique identifier, the call returns
\* KMIP_STATUS_SUCCESS and *id is a live block of its own holding the bytes
\* of that identifier, with *id_size their number.
C11_CreateCopiesIdentifier ==
    (op \in CreateOps /\ Terminal /\ WellShaped
        /\ resp_m.batch_items[1].result_status = KMIP_STATUS_SUCCESS
        /\ resp_m.batch_items[1].response_payload.present
        /\ resp_m.batch_items[1].response_payload.uid_present) =>
        /\ Returned
        /\ ret = KMIP_STATUS_SUCCESS
        /\ Live(heap, out.ptr)
        /\ heap[out.ptr].kind = "out"
        /\ out.size = Len(resp_m.batch_items[1].response_payload.uid)
        /\ heap[out.ptr].data = resp_m.batch_items[1].response_payload.uid

\* C12: when kmip_bio_destroy got through every transport, codec and shape
\* step, it returns exactly the result status of the sole batch item, reads
\* that item once and nothing of its payload, writes no output, and leaves
\* no block of the call allocated.
C12_DestroyReturnsStatus ==
    (op = OpDestroy /\ Terminal /\ WellShaped) =>
        /\ Returned
        /\ ret = resp_m.batch_items[1].result_status
        /\ hist.itemsRead = 1
        /\ OutUnset
        /\ LiveBlocks(heap) = {}
        /\ \A p \in DOMAIN heap : heap[p].kind # "out"

C12_Witness ==
    /\ op = OpDestroy /\ Returned /\ WellShaped
    /\ ret = KMIP_STATUS_OPERATION_FAILED
    /\ resp_m.batch_items[1].result_status = KMIP_STATUS_OPERATION_FAILED
    /\ ~resp_m.batch_items[1].response_payload.present
    /\ hist.regrown > 0

\* The outcomes of the error taxonomy a decoding function can return.
Outcomes ==
    {KMIP_STATUS_SUCCESS, KMIP_STATUS_OPERATION_FAILED, KMIP_MEMORY_ALLOC_FAILED,
     KMIP_IO_FAILURE, KMIP_EXCEED_MAX_MESSAGE_SIZE, KMIP_MALFORMED_RESPONSE,
     KMIP_OBJECT_MISMATCH, KMIP_NOT_IMPLEMENTED, KMIP_ERROR_BUFFER_FULL,
     KMIP_TAG_MISMATCH, KMIP_TYPE_MISMATCH}

\* C13 (as claimed): a well-shaped response whose batch item reports a
\* failure and carries no response payload makes kmip_bio_create and
\* kmip_bio_create_with_context return an outcome of the taxonomy; the call
\* does not end in a read through the absent payload.
C13_AbsentPayloadNotRead ==
    (op \in CreateOps /\ Terminal /\ WellShaped
        /\ resp_m.batch_items[1].result_status # KMIP_STATUS_SUCCESS
        /\ ~resp_m.batch_items[1].response_payload.present) =>
        (Returned /\ ret \in Outcomes)

\* the states of the encode-retry loop: buffer acquired, request not yet
\* encoded with success
InEncodeLoop == pc \in {"alloc", "encode", "encoded"}

\* C14: within one call only the last transport operation can be short
\* (after a short write or read no further write or read is issued: the
\* call has ended, and when it returned it returned KMIP_IO_FAILURE), and
\* no transport operation has been issued while the call is still in the
\* encode-retry loop.
C14_FailFastIo ==
    /\ \A i \in DOMAIN io : io[i].got # io[i].want => i = Len(io)
    /\ ShortIo => Terminal
    /\ (ShortIo /\ Returned) => ret = KMIP_IO_FAILURE
    /\ (InEncodeLoop /\ op \in CodecOps) => io = <<>>

C14_Witness ==
    /\ Returned /\ Len(io) = 2
    /\ io[1].got = io[1].want
    /\ io[2].got = io[2].want - 1
    /\ hist.regrown > 0

\* C15 (as claimed): once the declared length has passed the size check and
\* the header buffer has been handed to realloc, the call goes on with a
\* live buffer of exactly 8 + length bytes whose first 8 bytes are the
\* header; growing it never faults, the body read asks for exactly length
\* bytes, and this buffer is what the decoder (or the raw caller) gets.
C15_FrameExtended ==
    hist.grown =>
        /\ (pc = "fault") => hist.decodeResult = KMIP_OK
        /\ (pc \in {"read_body", "decode", "return_raw"}) =>
            /\ Live(heap, encoding)
            /\ heap[encoding].size = HeaderSize + length
            /\ buffer_total_size = HeaderSize + length
            /\ Len(heap[encoding].data) = HeaderSize
            /\ SubSeq(heap[encoding].data, 1, 4) = FramePrefix
            /\ decode_int32_be(SubSeq(heap[encoding].data, 5, 8)) = length
        /\ (Len(io) = 3) => io[3].want = length

\* the working buffers (send, receive) currently allocated
LiveWorking == {p \in WorkingBlocks : heap[p].frees = 0}

\* C16: in every state at most one working buffer is allocated; a send
\* buffer is allocated only while the request is being encoded, so every
\* send buffer has been released before the header buffer is acquired and
\* before any transport read, and each turn of the retry loop has released
\* the old buffer before the larger one exists.
C16_OneWorkingBuffer ==
    /\ Cardinality(LiveWorking) <= 1
    /\ \A p \in LiveWorking : heap[p].kind = "send" => (InEncodeLoop /\ io = <<>>)
    /\ \A p \in DOMAIN heap : heap[p].kind = "recv" =>
          \A q \in 1..(p - 1) : heap[q].kind = "send" => heap[q].frees > 0

C16_Witness ==
    /\ pc = "read_body"
    /\ hist.regrown = 2
    /\ Cardinality({p \in DOMAIN heap : heap[p].kind = "send"}) = 3
    /\ Cardinality({p \in DOMAIN heap : heap[p].kind = "recv"}) = 2
    /\ Cardinality(LiveWorking) = 1

\* C17 (as claimed): an encode result other than KMIP_OK and KMIP_ERROR_BUFFER_FULL ends
\* the retry loop at once (no regrowth follows it) and is the call's return
\* value, with every block released and no transport operation issued; a
\* decode result other than KMIP_OK is the call's return value, with the
\* receive buffer released, no decoded message kept and no output written.
C17_CodecErrorsPropagate ==
    /\ (op \in CodecOps /\ encode_result \notin {KMIP_OK, KMIP_ERROR_BUFFER_FULL}) =>
        /\ hist.regrown = hist.full
        /\ io = <<>>
        /\ \/ pc = "encoded"
           \/ /\ Returned
              /\ ret = encode_result
              /\ LiveBlocks(heap) = {}
              /\ OutUnset
    /\ (hist.decodeResult \notin {"none", KMIP_OK}) =>
        /\ Returned
        /\ ret = hist.decodeResult
        /\ LiveBlocks(heap) = {}
        /\ \A p \in WorkingBlocks : heap[p].frees = 1
        /\ resp_m = NoResponse
        /\ OutUnset

\* C18 (as claimed): the transport operations of one call are a prefix of:
\* one write of the whole request, one read of 8 bytes, one read of `length`
\* bytes.  The header read follows a complete write, the body read a
\* complete header read and a length that passed the size check, the decoder
\* a complete body read (the transport delivered all of a body of 0 or more
\* bytes); the decoder runs at most once.
C18_IoSequence ==
    /\ Len(io) <= 3
    /\ Len(io) >= 1 =>
        /\ io[1].kind = "write"
        /\ io[1].want = request.need
    /\ Len(io) >= 2 =>
        /\ io[2].kind = "read" /\ io[2].want = HeaderSize
        /\ io[1].got = io[1].want
    /\ Len(io) >= 3 =>
        /\ io[3].kind = "read" /\ io[3].want = length
        /\ io[2].got = io[2].want
        /\ hist.parsed /\ length <= max_message_size
    /\ hist.decoderCalls <= 1
    /\ hist.decoderCalls = 1 =>
        /\ op \in CodecOps
        /\ Len(io) = 3 /\ io[3].got = io[3].want /\ io[3].got >= 0

\* C19: kmip_bio_get_symmetric_key tests a decoded response in this order:
\* shape (KMIP_MALFORMED_RESPONSE), result status (a status other than
\* success is returned as it is, the payload not being read), object type,
\* then key format and wrapping (KMIP_OBJECT_MISMATCH).  The first test that
\* fails gives the return value and leaves the outputs unwritten; the
\* outputs are written only when all pass, *key_size being the size of the
\* key material and *key a copy of it.
C19_GetCheckOrder ==
    (op = OpGet /\ resp_m.decoded) =>
        IF resp_m.batch_count # 1 \/ resp_m.items_null
        THEN /\ Terminal => (Returned /\ ret = KMIP_MALFORMED_RESPONSE)
             /\ OutUnset
        ELSE LET status == resp_m.batch_items[1].result_status
                 pld == resp_m.batch_items[1].response_payload
                 mismatch ==
                    \/ pld.object_type # KMIP_OBJTYPE_SYMMETRIC_KEY
                    \/ pld.key_format_type # KMIP_KEYFORMAT_RAW
                    \/ pld.key_wrapping_data
             IN IF status # KMIP_STATUS_SUCCESS
                THEN /\ Terminal => (Returned /\ ret = status)
                     /\ OutUnset
                ELSE IF pld.present /\ mismatch
                THEN /\ Terminal => (Returned /\ ret = KMIP_OBJECT_MISMATCH)
                     /\ OutUnset
                ELSE /\ Returned => ret = KMIP_STATUS_SUCCESS
                     /\ ~OutUnset => out.size = Len(pld.key_material)
                     /\ (Returned /\ out.ptr # NULL) =>
                            /\ Live(heap, out.ptr)
                            /\ heap[out.ptr].data = pld.key_material

C19_Witness ==
    /\ op = OpGet /\ Returned /\ ret = KMIP_STATUS_SUCCESS
    /\ Live(heap, out.ptr)
    /\ out.size = MaxIdSize
    /\ heap[out.ptr].data = Bytes(MaxIdSize)

\* one step of the call taken while the codec's last answer is "buffer full"
FullStep ==
    (pc = "encoded" /\ op \in CodecOps /\ encode_result = KMIP_ERROR_BUFFER_FULL) =>
        \/ /\ pc' = "encoded"
           /\ hist'.regrown = hist.regrown + 1
           /\ buffer_total_size' = buffer_total_size + 1024
           /\ io' = io
        \/ /\ pc' = "done"
           /\ ret' = KMIP_MEMORY_ALLOC_FAILED
           /\ hist'.allocFailed

\* C20: from a "buffer full" answer the call either regrows by one block
\* and stays in the retry loop or ends with KMIP_MEMORY_ALLOC_FAILED:
\* nothing else ends the loop.  The codec answers "buffer full" exactly
\* while the buffer is smaller than the encoding, so a request whose
\* encoding has a size S the loop can reach leaves the loop, after
\* ceil(S/1024) - 1 regrowths when S > 1024; a request that gets "buffer
\* full" at every size stays in the loop for good unless an allocation
\* fails.
C20_RetryLoop ==
    /\ [][FullStep]_vars
    /\ [](InEncodeLoop /\ op \in CodecOps /\ request.errAt = 0 =>
            /\ (pc = "encoded" /\ encode_result = KMIP_ERROR_BUFFER_FULL) =>
                    buffer_total_size < request.need
            /\ (pc = "encoded" /\ encode_result = KMIP_OK /\ request.need > 1024) =>
                    hist.regrown = ((request.need + 1023) \div 1024) - 1)
    /\ [](op \in CodecOps /\ request.need = NeverFits /\ ~hist.allocFailed =>
            InEncodeLoop)
    /\ [](pc = "encoded" /\ request.need < NeverFits => <>(pc # "encoded"))

C20_Witness ==
    /\ pc = "encoded" /\ encode_result = KMIP_ERROR_BUFFER_FULL
    /\ request.need = NeverFits
    /\ hist.regrown = MaxBlocks - 1
    /\ buffer_total_size = MaxBlocks * 1024

(* ---------------------------- C21 .. C24 ------------------------------ *)
\* C21 (as claimed): at every kmip_reset and kmip_destroy of a call the
\* context's buffer handle is NULL or names a block that is still
\* allocated; it never names a block that free_buffer released or that
\* realloc replaced.
C21_HandleNeverStale ==
    ~hist.staleReset

\* C22 (as claimed): once a call is past the size check, the declared
\* length is between 0 and max_message_size, so every receive buffer has
\* between 8 and 8 + max_message_size bytes and growing it does not fault.
C22_LengthInRange ==
    (pc = "extend" \/ hist.grown) =>
        /\ 0 <= length
        /\ length <= max_message_size
        /\ \A p \in DOMAIN heap : heap[p].kind = "recv" =>
              /\ HeaderSize <= heap[p].size
              /\ heap[p].size <= HeaderSize + max_message_size

\* C23: the context starts with an empty buffer handle, and whenever
\* kmip_bio_create_with_context or kmip_bio_send_request_encoding has
\* returned, whatever it returned, the handle is empty again (NULL, size 0):
\* so it is empty at the start of every call of a sequence of calls on one
\* context, and it names neither a released block nor the block handed to
\* the caller as the raw response.
C23_HandleEmptyBetweenCalls ==
    (pc = "idle" \/ (Returned /\ op \in CallerCtxOps)) =>
        /\ ctx.buffer = NULL
        /\ ctx.size = 0
        /\ ~Dangling(heap, ctx.buffer)
        /\ (op = OpRaw /\ ret = KMIP_OK /\ out.ptr # NULL) => ctx.buffer # out.ptr

C23_Witness ==
    /\ op = OpRaw /\ Returned /\ ret = KMIP_OK
    /\ Live(heap, out.ptr)
    /\ out.size = HeaderSize + 16
    /\ ctx.buffer = NULL

\* two sequences of answers agree as far as both go
Compatible(s, t) == \A i \in DOMAIN s \cap DOMAIN t : s[i] = t[i]

\* the environment answered two calls alike: transport (bytes moved, header
\* bytes), decoder (result and message), allocator
SameAnswers(a, b) ==
    /\ Compatible(a.gots, b.gots)
    /\ Compatible(a.allocs, b.allocs)
    /\ (a.header = <<>> \/ b.header = <<>> \/ a.header = b.header)
    /\ (a.memset = "none" \/ b.memset = "none" \/ a.memset = b.memset)
    /\ \/ a.decodeResult = "none"
       \/ b.decodeResult = "none"
       \/ (a.decodeResult = b.decodeResult /\ a.message = b.message)

\* C24: when kmip_bio_create_with_context, on a fresh context, has ended
\* after getting the arguments of an ended kmip_bio_create and the same
\* answers from transport, decoder and allocator, then it ended the same
\* way, issued the same writes and reads and returned the same status, *id
\* and *id_size.
C24_CreateVariantsAgree ==
    (hist.twin # <<>> /\ Terminal /\ SameAnswers(hist.twin[1], Observation)) =>
        LET a == hist.twin[1]
            b == Observation
        IN /\ b.ended = a.ended
           /\ b.ret = a.ret
           /\ b.requests = a.requests
           /\ b.id_ptr = a.id_ptr
           /\ b.id_size = a.id_size
           /\ b.id = a.id

C24_Witness ==
    /\ hist.twin # <<>> /\ Returned
    /\ SameAnswers(hist.twin[1], Observation)
    /\ hist.twin[1].ret = KMIP_STATUS_SUCCESS
    /\ ret = KMIP_STATUS_SUCCESS
    /\ hist.regrown = 1
    /\ Len(io) = 3
    /\ "moved" \in {hist.allocs[i] : i \in DOMAIN hist.allocs}
    /\ Observation.id = Bytes(MaxIdSize)
    /\ hist.twin[1].id = Bytes(MaxIdSize)

Spec == Init /\ [][Next]_vars

\* A call is one thread of straight-line code and a loop: as long as a next
\* statement exists, it is executed.
FairSpec == Spec /\ WF_vars(Next)
====
